---- MODULE Spec2Model ----
(***************************************************************************)
(* A model of src/src/Compiler.ts: the Compiler class that keeps one       *)
(* incremental esbuild build per tsconfig.json.  The state is the four     *)
(* fields of the class (builds, fileMap, tsConfigMap, groupMap), the       *)
(* in-flight calls of its async methods, each cut at its awaits.  The      *)
(* source tree the TypeScript resolver reads is an input of each compile   *)
(* call.  Strings are sequences of one-character strings, so that path     *)
(* rewriting is computed.                                                  *)
(***************************************************************************)
EXTENDS Naturals, Sequences, FiniteSets, TLC

\* ------------------------------------------------------------------ bounds

\* How many calls of compile / rebuild / invalidateBuildSet a run issues.
MaxCalls == 3

\* ----------------------------------------------------------------- strings

Slash == "/"
BackSlash == "\\"

Platforms == {"linux", "win32"}

\* e.replace(/\//g, "\\")  (Compiler.ts line 103)
toBackslashes(e) == [i \in 1..Len(e) |-> IF e[i] = Slash THEN BackSlash ELSE e[i]]

\* TypeScript's own normalisation of the names it is given: "\" becomes "/".
normalizeSlashes(e) == [i \in 1..Len(e) |-> IF e[i] = BackSlash THEN Slash ELSE e[i]]

\* The host's spelling of a path written with "/".
Native(p, e) == IF p = "win32" THEN toBackslashes(e) ELSE e

\* String.prototype.indexOf: the first position of pat in s, 0 when absent.
IndexOf(s, pat) ==
  LET hits == {i \in 1..(Len(s) + 1) : /\ i + Len(pat) - 1 <= Len(s)
                                       /\ SubSeq(s, i, i + Len(pat) - 1) = pat}
  IN IF hits = {} THEN 0 ELSE CHOOSE i \in hits : \A j \in hits : i <= j

\* String.prototype.replace with a string pattern: the first occurrence only.
replaceFirst(s, pat, rep) ==
  LET i == IndexOf(s, pat)
  IN IF i = 0 THEN s
     ELSE SubSeq(s, 1, i - 1) \o rep \o SubSeq(s, i + Len(pat), Len(s))

\* filename.replace(/.tsx?$/, ".js"): any one character, then "ts", then an
\* optional "x", at the end of the string.
replaceTsExt(s) ==
  LET n == Len(s)
  IN IF n >= 4 /\ s[n - 2] = "t" /\ s[n - 1] = "s" /\ s[n] = "x"
       THEN SubSeq(s, 1, n - 4) \o <<".", "j", "s">>
     ELSE IF n >= 3 /\ s[n - 1] = "t" /\ s[n] = "s"
       THEN SubSeq(s, 1, n - 3) \o <<".", "j", "s">>
     ELSE s

RECURSIVE collapse(_, _)
\* One separator for every run of separators of s.
collapse(s, sep) ==
  IF Len(s) <= 1 THEN s
  ELSE IF s[1] = sep /\ s[2] = sep THEN collapse(Tail(s), sep)
  ELSE <<s[1]>> \o collapse(Tail(s), sep)

\* path.join(a, b) for paths without "." and ".." segments: the two parts
\* with the host's separator between them, normalised.
pathJoin(p, a, b) ==
  IF p = "win32"
    THEN collapse(toBackslashes(a \o <<BackSlash>> \o b), BackSlash)
    ELSE collapse(a \o <<Slash>> \o b, Slash)

\* -------------------------------------------------------- the file system

\* Source files and manifests as the resolver names them (with "/").
FileA == <<"/", "r", "/", "a", ".", "t", "s">>
FileB == <<"/", "r", "/", "b", ".", "t", "s", "x">>
FileC == <<"/", "r", "/", "p", "/", "c", ".", "t", "s">>
Files == {FileA, FileB, FileC}

RootDir == <<"/", "r">>
OutDir == <<"/", "o">>

ManifestRoot == "/r/tsconfig.json"
ManifestP == "/r/p/tsconfig.json"

Found(m, names) == [kind |-> "ok", tsConfigFile |-> m, fileNames |-> names]
ConfigNotFound == [kind |-> "ConfigNotFound", tsConfigFile |-> "", fileNames |-> <<>>]
ConfigParseError == [kind |-> "ConfigParseError", tsConfigFile |-> "", fileNames |-> <<>>]

\* The states of the source tree: what ts.findConfigFile and
\* ts.parseJsonConfigFileContent answer for each file.
\*  "both":   /r/tsconfig.json lists a.ts and b.tsx, /r/p/tsconfig.json lists c.ts
\*  "shrunk": /r/tsconfig.json lists a.ts only and /r/p/tsconfig.json is gone,
\*            so it is the nearest manifest of b.tsx and c.ts too
\*  "broken": /r/tsconfig.json is gone, /r/p/tsconfig.json has diagnostics
Worlds == {"both", "shrunk", "broken"}

Resolver(w, f) ==
  CASE w = "both" ->
         IF f \in {FileA, FileB} THEN Found(ManifestRoot, <<FileA, FileB>>)
         ELSE Found(ManifestP, <<FileC>>)
    [] w = "shrunk" -> Found(ManifestRoot, <<FileA>>)
    [] OTHER ->
         IF f = FileC THEN ConfigParseError ELSE ConfigNotFound

\* ------------------------------------------------------------------- state

VARIABLES
  platform,     \* process.platform, fixed for a run
  builds,       \* Compiler.builds: the handles, in push order
  fileMap,      \* Compiler.fileMap: filename -> handle
  tsConfigMap,  \* Compiler.tsConfigMap: tsconfig file -> handle
  groupMap,     \* Compiler.groupMap: filename -> list of filenames
  starts,       \* the service.build calls issued so far; a handle is the
                \* index of the call that returned it
  disposeCount, \* per handle, the calls of build.rebuild.dispose()
  rebuildCount, \* per handle, the calls of build.rebuild()
  calls         \* the calls of the async methods, in the order issued

vars == <<platform, builds, fileMap, tsConfigMap, groupMap, starts,
          disposeCount, rebuildCount, calls>>

\* Whether obj[key] of a JavaScript object used as a map is set.
Has(map, key) == key \in DOMAIN map

Range(seq) == {seq[i] : i \in 1..Len(seq)}

EmptyMap == <<>>

\* The four fields of the class, for comparing two moments.
Registry ==
  [builds |-> builds, fileMap |-> fileMap, tsConfigMap |-> tsConfigMap,
   groupMap |-> groupMap]

\* readonly workspaceRoot, readonly workDir (constructor, line 22), in the
\* host's spelling.
workspaceRoot == Native(platform, RootDir)
workDir == Native(platform, OutDir)

\* The filenames callers pass: the source files in the host's spelling.
Filenames == {Native(platform, f) : f \in Files}

\* destination without filename.replace(this.workspaceRoot, "").
destination_KeepRoot(filename) ==
  pathJoin(platform, workDir, replaceTsExt(filename))

\* private destination (lines 149-151)
destination(filename) ==
  pathJoin(platform, workDir, replaceTsExt(replaceFirst(filename, workspaceRoot, <<>>)))

\* getTSConfig without the throws of lines 77 and 82-84: a missing or
\* broken manifest is answered as an empty project.
getTSConfig_NoThrow(w, filename) ==
  LET r == Resolver(w, normalizeSlashes(filename))
  IN IF r.kind = "ok" THEN r ELSE Found(ManifestP, <<>>)

\* private getTSConfig (lines 74-90): the nearest tsconfig.json and its
\* parsed file names, or the error thrown, with the source tree in state w
\* when it is called.
getTSConfig(w, filename) == Resolver(w, normalizeSlashes(filename))

\* fileGroup (lines 55-58): the entries of the object returned, in insertion
\* order; a TypeError when groupMap has no entry for filename.
fileGroup(filename) ==
  IF ~Has(groupMap, filename) THEN <<"TypeError">>
  ELSE LET files == groupMap[filename]
       IN [i \in 1..Len(files) |-> <<files[i], destination(files[i])>>]

\* The entry points without the win32 branch of lines 102-103.
entryPoints_Raw(names) == names

\* lines 101-106: the entry points in the host's spelling.
entryPoints(names) ==
  IF platform = "win32" THEN [i \in 1..Len(names) |-> toBackslashes(names[i])]
  ELSE names

NewCall(op, filename) ==
  [op |-> op, pc |-> "start", filename |-> filename,
   tsConfigFile |-> "", fileNames |-> <<>>, build |-> 0,
   targets |-> <<>>, pending |-> {}, result |-> "pending", ret |-> <<>>,
   path |-> "none", logged |-> 0, failed |-> {}, world |-> "none",
   pre |-> Registry]

Init ==
  /\ platform \in Platforms
  /\ builds = <<>>
  /\ fileMap = EmptyMap
  /\ tsConfigMap = EmptyMap
  /\ groupMap = EmptyMap
  /\ starts = <<>>
  /\ disposeCount = <<>>
  /\ rebuildCount = <<>>
  /\ calls = <<>>

Quiet == \A c \in 1..Len(calls) : calls[c].pc = "done"

\* ----------------------------------------------------------------- compile

\* compile(filename) up to its first suspension (lines 47-48, 96-98): the
\* fileMap check, then getTSConfig, which runs to its end in the same turn
\* and reads the source tree as it is then (w).
compile(filename, w) ==
  /\ Len(calls) < MaxCalls
  /\ LET c0 == NewCall("compile", filename)
         r == getTSConfig(w, filename)
     IN calls' = Append(calls,
          IF Has(fileMap, filename)
            THEN [c0 EXCEPT !.pc = "done", !.result = "ok", !.path = "hit",
                            !.ret = destination(filename)]
          ELSE IF r.kind # "ok"
            THEN [c0 EXCEPT !.pc = "done", !.result = r.kind, !.path = "noConfig",
                            !.world = w]
          ELSE [c0 EXCEPT !.pc = "resolved", !.tsConfigFile = r.tsConfigFile,
                          !.fileNames = r.fileNames, !.world = w])
  /\ UNCHANGED <<platform, builds, fileMap, tsConfigMap, groupMap, starts,
                 disposeCount, rebuildCount>>

\* startBuilding without the tsConfigMap check of line 99.
startBuilding_NoManifestCheck(c) ==
  /\ c \in 1..Len(calls)
  /\ calls[c].pc = "resolved"
  /\ starts' = Append(starts,
       [tsconfig |-> calls[c].tsConfigFile,
        entryPoints |-> entryPoints(calls[c].fileNames)])
  /\ disposeCount' = Append(disposeCount, 0)
  /\ rebuildCount' = Append(rebuildCount, 0)
  /\ calls' = [calls EXCEPT ![c].pc = "building",
                            ![c].fileNames = entryPoints(calls[c].fileNames),
                            ![c].build = Len(starts) + 1]
  /\ UNCHANGED <<platform, builds, fileMap, tsConfigMap, groupMap>>

\* startBuilding had line 99 map the file to the handle found for its
\* manifest before returning.
startBuilding_AdoptsFile(c) ==
  /\ c \in 1..Len(calls)
  /\ calls[c].pc = "resolved"
  /\ IF Has(tsConfigMap, calls[c].tsConfigFile)
       THEN /\ fileMap' = (calls[c].filename :> tsConfigMap[calls[c].tsConfigFile])
                             @@ fileMap
            /\ calls' = [calls EXCEPT ![c].pc = "done", ![c].result = "ok",
                                      ![c].path = "live",
                                      ![c].ret = destination(calls[c].filename)]
            /\ UNCHANGED <<starts, disposeCount, rebuildCount>>
       ELSE /\ starts' = Append(starts,
                 [tsconfig |-> calls[c].tsConfigFile,
                  entryPoints |-> entryPoints(calls[c].fileNames)])
            /\ disposeCount' = Append(disposeCount, 0)
            /\ rebuildCount' = Append(rebuildCount, 0)
            /\ calls' = [calls EXCEPT ![c].pc = "building",
                                      ![c].fileNames = entryPoints(calls[c].fileNames),
                                      ![c].build = Len(starts) + 1]
            /\ UNCHANGED fileMap
  /\ UNCHANGED <<platform, builds, tsConfigMap, groupMap>>

\* startBuilding after the await of getTSConfig (lines 99-120): the
\* tsConfigMap check and, on a miss, the service.build call.
startBuilding(c) ==
  /\ c \in 1..Len(calls)
  /\ calls[c].pc = "resolved"
  /\ IF Has(tsConfigMap, calls[c].tsConfigFile)
       THEN /\ calls' = [calls EXCEPT ![c].pc = "done", ![c].result = "ok",
                                      ![c].path = "live",
                                      ![c].ret = destination(calls[c].filename)]
            /\ UNCHANGED <<starts, disposeCount, rebuildCount>>
       ELSE /\ starts' = Append(starts,
                 [tsconfig |-> calls[c].tsConfigFile,
                  entryPoints |-> entryPoints(calls[c].fileNames)])
            /\ disposeCount' = Append(disposeCount, 0)
            /\ rebuildCount' = Append(rebuildCount, 0)
            /\ calls' = [calls EXCEPT ![c].pc = "building",
                                      ![c].fileNames = entryPoints(calls[c].fileNames),
                                      ![c].build = Len(starts) + 1]
  /\ UNCHANGED <<platform, builds, fileMap, tsConfigMap, groupMap>>

\* lines 122-137, then line 49: service.build resolved; the build is
\* registered in one turn and compile returns.
buildResolved(c) ==
  /\ c \in 1..Len(calls)
  /\ calls[c].pc = "building"
  /\ LET build == calls[c].build
         fileNames == calls[c].fileNames
         keys == Range(fileNames)
     IN /\ tsConfigMap' = (calls[c].tsConfigFile :> build) @@ tsConfigMap
        /\ builds' = Append(builds, build)
        /\ fileMap' = [k \in DOMAIN fileMap \cup keys |->
                         IF k \in keys THEN build ELSE fileMap[k]]
        /\ groupMap' = [k \in DOMAIN groupMap \cup keys |->
                          IF k \in keys THEN fileNames ELSE groupMap[k]]
  /\ calls' = [calls EXCEPT ![c].pc = "done", ![c].result = "ok",
                            ![c].path = "started",
                            ![c].ret = destination(calls[c].filename)]
  /\ UNCHANGED <<platform, starts, disposeCount, rebuildCount>>

\* buildRejected had line 122 run before the build is awaited: the manifest
\* stays registered with the handle that never came.
buildRejected_KeepsManifest(c) ==
  /\ c \in 1..Len(calls)
  /\ calls[c].pc = "building"
  /\ tsConfigMap' = (calls[c].tsConfigFile :> calls[c].build) @@ tsConfigMap
  /\ calls' = [calls EXCEPT ![c].pc = "done", ![c].result = "ok",
                            ![c].path = "startFailed",
                            ![c].logged = @ + 1,
                            ![c].ret = destination(calls[c].filename)]
  /\ UNCHANGED <<platform, builds, fileMap, groupMap, starts, disposeCount,
                 rebuildCount>>

\* lines 141-147, then line 49: service.build rejected; reportESBuildErrors
\* logs the error and compile returns.
buildRejected(c) ==
  /\ c \in 1..Len(calls)
  /\ calls[c].pc = "building"
  /\ calls' = [calls EXCEPT ![c].pc = "done", ![c].result = "ok",
                            ![c].path = "startFailed",
                            ![c].logged = @ + 1,
                            ![c].ret = destination(calls[c].filename)]
  /\ UNCHANGED <<platform, builds, fileMap, tsConfigMap, groupMap, starts,
                 disposeCount, rebuildCount>>

\* ----------------------------------------------------------------- rebuild

\* rebuild that also calls service.build again for the last start call when
\* its handle is not in builds.
rebuild_Retries ==
  /\ Len(calls) < MaxCalls
  /\ LET retry == starts # <<>> /\ Len(starts) \notin Range(builds)
     IN /\ starts' = IF retry THEN Append(starts, starts[Len(starts)]) ELSE starts
        /\ disposeCount' = IF retry THEN Append(disposeCount, 0) ELSE disposeCount
        /\ rebuildCount' =
             LET counted == [h \in DOMAIN rebuildCount |->
                               IF h \in Range(builds) THEN rebuildCount[h] + 1
                               ELSE rebuildCount[h]]
             IN IF retry THEN Append(counted, 0) ELSE counted
  /\ calls' = Append(calls,
       [NewCall("rebuild", <<>>) EXCEPT !.pc = "rebuilding", !.targets = builds,
                                        !.pending = Range(builds)])
  /\ UNCHANGED <<platform, builds, fileMap, tsConfigMap, groupMap>>

\* rebuild() up to its await (lines 64-66): build.rebuild() is called on
\* every element of builds.
rebuild ==
  /\ Len(calls) < MaxCalls
  /\ rebuildCount' = [h \in DOMAIN rebuildCount |->
                        IF h \in Range(builds) THEN rebuildCount[h] + 1
                        ELSE rebuildCount[h]]
  /\ calls' = Append(calls,
       [NewCall("rebuild", <<>>) EXCEPT !.pc = "rebuilding", !.targets = builds,
                                        !.pending = Range(builds)])
  /\ UNCHANGED <<platform, builds, fileMap, tsConfigMap, groupMap, starts,
                 disposeCount>>

\* rebuildSettled without the try/catch of reportESBuildErrors: a rejection
\* rejects Promise.all and rebuild() throws.
rebuildSettled_Unwrapped(c, h, ok) ==
  /\ c \in 1..Len(calls)
  /\ calls[c].pc = "rebuilding"
  /\ h \in calls[c].pending
  /\ calls' = IF ok THEN [calls EXCEPT ![c].pending = @ \ {h}]
              ELSE [calls EXCEPT ![c].pending = @ \ {h},
                                 ![c].failed = @ \cup {h},
                                 ![c].pc = "done", ![c].result = "BuildError"]
  /\ UNCHANGED <<platform, builds, fileMap, tsConfigMap, groupMap, starts,
                 disposeCount, rebuildCount>>

\* One build.rebuild() settles (lines 66, 141-147); a rejection is logged.
rebuildSettled(c, h, ok) ==
  /\ c \in 1..Len(calls)
  /\ calls[c].pc = "rebuilding"
  /\ h \in calls[c].pending
  /\ calls' = [calls EXCEPT ![c].pending = @ \ {h},
                            ![c].failed = IF ok THEN @ ELSE @ \cup {h},
                            ![c].logged = IF ok THEN @ ELSE @ + 1]
  /\ UNCHANGED <<platform, builds, fileMap, tsConfigMap, groupMap, starts,
                 disposeCount, rebuildCount>>

\* rebuildReturn without the await of Promise.all: rebuild returns while
\* attempts are still running.
rebuildReturn_Early(c) ==
  /\ c \in 1..Len(calls)
  /\ calls[c].pc = "rebuilding"
  /\ calls' = [calls EXCEPT ![c].pc = "done", ![c].result = "ok"]
  /\ UNCHANGED <<platform, builds, fileMap, tsConfigMap, groupMap, starts,
                 disposeCount, rebuildCount>>

\* Promise.all resolved (lines 66-72): rebuild returns.
rebuildReturn(c) ==
  /\ c \in 1..Len(calls)
  /\ calls[c].pc = "rebuilding"
  /\ calls[c].pending = {}
  /\ calls' = [calls EXCEPT ![c].pc = "done", ![c].result = "ok"]
  /\ UNCHANGED <<platform, builds, fileMap, tsConfigMap, groupMap, starts,
                 disposeCount, rebuildCount>>

\* ------------------------------------------------------ invalidateBuildSet

\* invalidateBuildSet() up to its await (line 38): dispose() is called on
\* every element of builds.
invalidateBuildSet ==
  /\ Len(calls) < MaxCalls
  /\ disposeCount' = [h \in DOMAIN disposeCount |->
                        IF h \in Range(builds) THEN disposeCount[h] + 1
                        ELSE disposeCount[h]]
  /\ calls' = Append(calls,
       [NewCall("invalidate", <<>>) EXCEPT !.pc = "disposing", !.targets = builds,
                                           !.pending = Range(builds)])
  /\ UNCHANGED <<platform, builds, fileMap, tsConfigMap, groupMap, starts,
                 rebuildCount>>

\* One dispose() resolves.
disposeResolved(c, h) ==
  /\ c \in 1..Len(calls)
  /\ calls[c].pc = "disposing"
  /\ h \in calls[c].pending
  /\ calls' = [calls EXCEPT ![c].pending = @ \ {h}]
  /\ UNCHANGED <<platform, builds, fileMap, tsConfigMap, groupMap, starts,
                 disposeCount, rebuildCount>>

\* One dispose() rejects: Promise.all rejects, the await of line 38 throws
\* and lines 39-41 are not run.
disposeRejected(c, h) ==
  /\ c \in 1..Len(calls)
  /\ calls[c].pc = "disposing"
  /\ h \in calls[c].pending
  /\ calls' = [calls EXCEPT ![c].pc = "done", ![c].result = "DisposeError",
                            ![c].pending = {}]
  /\ UNCHANGED <<platform, builds, fileMap, tsConfigMap, groupMap, starts,
                 disposeCount, rebuildCount>>

\* Promise.all resolved (lines 39-42): the three fields are reset.
invalidateClear(c) ==
  /\ c \in 1..Len(calls)
  /\ calls[c].pc = "disposing"
  /\ calls[c].pending = {}
  /\ builds' = <<>>
  /\ fileMap' = EmptyMap
  /\ tsConfigMap' = EmptyMap
  /\ calls' = [calls EXCEPT ![c].pc = "done", ![c].result = "ok"]
  /\ UNCHANGED <<platform, groupMap, starts, disposeCount, rebuildCount>>

\* ---------------------------------------------------------- specifications

Handles == 1..MaxCalls
CallIds == 1..MaxCalls

Step ==
  \/ \E c \in CallIds : startBuilding(c)
  \/ \E c \in CallIds : buildResolved(c)
  \/ \E c \in CallIds : buildRejected(c)
  \/ \E c \in CallIds, h \in Handles, ok \in BOOLEAN : rebuildSettled(c, h, ok)
  \/ \E c \in CallIds : rebuildReturn(c)
  \/ \E c \in CallIds, h \in Handles : disposeResolved(c, h)
  \/ \E c \in CallIds, h \in Handles : disposeRejected(c, h)
  \/ \E c \in CallIds : invalidateClear(c)

Begin ==
  \/ \E f \in Filenames, w \in Worlds : compile(f, w)
  \/ rebuild
  \/ invalidateBuildSet

\* Calls may overlap: a call may begin while others are suspended.
Next == Begin \/ Step

Spec == Init /\ [][Next]_vars

\* Calls never overlap: each is awaited before the next begins.
NextSeq ==
  \/ \E f \in Filenames, w \in Worlds : Quiet /\ compile(f, w)
  \/ Quiet /\ rebuild
  \/ Quiet /\ invalidateBuildSet
  \/ Step

SpecSeq == Init /\ [][NextSeq]_vars

\* SpecSeq where every build.rebuild() that was called settles and the
\* continuation of a resolved Promise.all is run by the event loop.
SpecLive ==
  /\ Init /\ [][NextSeq]_vars
  /\ WF_vars(\E c \in CallIds, h \in Handles, ok \in BOOLEAN : rebuildSettled(c, h, ok))
  /\ WF_vars(\E c \in CallIds : rebuildReturn(c))

\* ------------------------------------------------------ reading the history

Manifests == {ManifestRoot, ManifestP}

CallsOf(op) == {c \in 1..Len(calls) : calls[c].op = op}
Done(c) == calls[c].pc = "done"

\* The last call issued, once it has returned or thrown.
Latest(c) == c = Len(calls) /\ Done(c)

\* The start calls issued for manifest m, and those of them whose promise
\* resolved / rejected.
StartsFor(m) == {h \in 1..Len(starts) : starts[h].tsconfig = m}
Succeeded(h) == \E c \in CallsOf("compile") : calls[c].build = h /\ calls[c].path = "started"
Failed(h) == \E c \in CallsOf("compile") : calls[c].build = h /\ calls[c].path = "startFailed"

\* The positions of builds that hold a handle started for manifest m.
LiveFor(m) == {i \in 1..Len(builds) : starts[builds[i]].tsconfig = m}

\* Some compile call was answered "manifest m" by the resolver.
Requested(m) == \E c \in CallsOf("compile") : calls[c].tsConfigFile = m

NoInvalidate == CallsOf("invalidate") = {}

\* ------------------------------------------------------------------ claim C1

\* C1 as stated: when every compile call was awaited before the next and no
\* invalidate was called, each project a compile call resolved to has had
\* exactly one service.build call and has exactly one handle in builds.
C1_ExactlyOneStart ==
  (Quiet /\ NoInvalidate) =>
    \A m \in Manifests :
      Requested(m) =>
        /\ Cardinality(StartsFor(m)) = 1
        /\ Cardinality(LiveFor(m)) = 1

\* C1 amended: when every compile call was awaited before the next and no
\* invalidate was called, a service.build call for a project is issued only
\* while no earlier one for it has resolved, so at most one resolves and at
\* most one handle of the project is in builds; when none was rejected,
\* exactly one was issued and exactly one handle of the project is in builds.
C1_OneLiveProcess ==
  (Quiet /\ NoInvalidate) =>
    \A m \in Manifests :
      Requested(m) =>
        /\ Cardinality(StartsFor(m)) >= 1
        /\ \A h \in StartsFor(m) :
             (\E g \in StartsFor(m) : g > h) => Failed(h)
        /\ Cardinality({h \in StartsFor(m) : Succeeded(h)}) <= 1
        /\ Cardinality(LiveFor(m)) = Cardinality({h \in StartsFor(m) : Succeeded(h)})
        /\ (\A h \in StartsFor(m) : ~Failed(h)) =>
             /\ Cardinality(StartsFor(m)) = 1
             /\ Cardinality(LiveFor(m)) = 1

\* Three awaited compile calls on files of one project: the first starts
\* the process, one hits fileMap, one finds the manifest live.
C1_Witness ==
  /\ Quiet /\ NoInvalidate
  /\ Len(calls) = 3
  /\ calls[1].path = "started"
  /\ {calls[2].path, calls[3].path} = {"hit", "live"}
  /\ Cardinality({calls[c].filename : c \in 1..3}) = 3
  /\ Cardinality(StartsFor(ManifestRoot)) = 1
  /\ Len(builds) = 1

\* ------------------------------------------------------------------ claim C2

\* C2 as stated: when invalidateBuildSet() has returned, tsConfigMap,
\* fileMap and groupMap are empty, and fileGroup(f) yields for no file the
\* group it yielded before the call.
C2_AllMapsEmptyAfterInvalidate ==
  \A c \in CallsOf("invalidate") :
    (Latest(c) /\ calls[c].result = "ok") =>
      /\ tsConfigMap = EmptyMap
      /\ fileMap = EmptyMap
      /\ groupMap = EmptyMap
      /\ \A f \in DOMAIN calls[c].pre.groupMap : ~Has(groupMap, f)

\* ------------------------------------------------------------------ claim C3

\* C3 as stated: when invalidateBuildSet() has finished, normally or with
\* an error of a dispose(), builds, fileMap and tsConfigMap are empty and
\* no handle it called dispose() on is still registered.
C3_ClearedDespiteDisposeFailure ==
  \A c \in CallsOf("invalidate") :
    Latest(c) =>
      /\ builds = <<>>
      /\ fileMap = EmptyMap
      /\ tsConfigMap = EmptyMap
      /\ \A h \in Range(calls[c].targets) :
           /\ h \notin Range(builds)
           /\ \A k \in DOMAIN fileMap : fileMap[k] # h
           /\ \A m \in DOMAIN tsConfigMap : tsConfigMap[m] # h

\* ------------------------------------------------------------------ claim C4

\* C4 as stated: an invalidateBuildSet() that no other call overlaps calls
\* dispose() exactly once on every handle that was in builds when it was
\* called, and the compile(f) that follows it, for a file f that had a
\* fileMap entry, issues a service.build call (when its manifest resolves)
\* instead of returning on a cached handle.
C4_InvalidateThenFreshStart ==
  \A c \in CallsOf("invalidate") :
    Done(c) =>
      /\ calls[c].targets = calls[c].pre.builds
      /\ \A h \in Range(calls[c].targets) : disposeCount[h] = 1
      /\ \A d \in CallsOf("compile") :
           (d = c + 1 /\ Done(d) /\ calls[d].path # "noConfig"
              /\ Has(calls[c].pre.fileMap, calls[d].filename)) =>
             /\ calls[d].build # 0
             /\ calls[d].path \in {"started", "startFailed"}

\* ------------------------------------------------------------------ claim C5

\* C5: rebuild() calls build.rebuild() on every handle that is in builds
\* when it is called; whichever of them reject, each rejection is logged
\* once, the others are still awaited, and rebuild() returns normally.
C5_RebuildIsolatesFailures ==
  /\ \A h \in 1..Len(starts) :
       rebuildCount[h] =
         Cardinality({c \in CallsOf("rebuild") : h \in Range(calls[c].pre.builds)})
  /\ \A c \in CallsOf("rebuild") :
       /\ calls[c].targets = calls[c].pre.builds
       /\ calls[c].failed \subseteq Range(calls[c].targets) \ calls[c].pending
       /\ calls[c].logged = Cardinality(calls[c].failed)
       /\ calls[c].result \in {"pending", "ok"}
       /\ Done(c) => (calls[c].result = "ok" /\ calls[c].pending = {})
       /\ ~Done(c) => calls[c].result = "pending"

\* A rebuild() over two handles has returned; the rebuild() of the first
\* handle was rejected and the one of the second resolved.
C5_Witness ==
  \E c \in CallsOf("rebuild") :
    /\ Done(c)
    /\ Len(calls[c].targets) = 2
    /\ calls[c].failed = {calls[c].targets[1]}
    /\ calls[c].logged = 1
    /\ calls[c].result = "ok"

\* ------------------------------------------------------------------ claim C6

\* Where the output of each source file belongs: under the output root, at
\* the file's place below the workspace root, with the extension .js.
ExpectedOutput(filename) ==
  LET f == normalizeSlashes(filename)
  IN Native(platform,
       CASE f = FileA -> <<"/", "o", "/", "a", ".", "j", "s">>
         [] f = FileB -> <<"/", "o", "/", "b", ".", "j", "s">>
         [] f = FileC -> <<"/", "o", "/", "p", "/", "c", ".", "j", "s">>)

\* No compile call was issued after call c and before call d.
NoCompileBetween(c, d) == \A e \in CallsOf("compile") : ~(c < e /\ e < d)

\* C6: when service.build is rejected inside compile(f), compile(f) returns
\* normally with the output path and the error is logged; builds, fileMap,
\* tsConfigMap and groupMap are as they were when it was called; and the
\* next compile(f) that resolves to the same manifest issues a new
\* service.build call for it.
C6_FailedStartLeavesRegistry ==
  \A c \in CallsOf("compile") :
    calls[c].path = "startFailed" =>
      /\ Done(c) /\ calls[c].result = "ok"
      /\ calls[c].ret = ExpectedOutput(calls[c].filename)
      /\ calls[c].logged = 1
      /\ Latest(c) => Registry = calls[c].pre
      /\ \A d \in CallsOf("compile") :
           (/\ d > c /\ NoCompileBetween(c, d)
            /\ calls[d].filename = calls[c].filename
            /\ calls[d].tsConfigFile = calls[c].tsConfigFile
            /\ calls[d].pc # "resolved") =>
             /\ calls[d].build \notin {0, calls[c].build}
             /\ starts[calls[d].build].tsconfig = calls[c].tsConfigFile

\* A compile(f) whose start failed was followed by a compile(f) that started
\* the process of the same manifest, while another project stayed registered.
C6_Witness ==
  \E c, d \in CallsOf("compile") :
    /\ d > c
    /\ calls[c].path = "startFailed"
    /\ calls[d].path = "started"
    /\ calls[d].filename = calls[c].filename
    /\ calls[d].tsConfigFile = calls[c].tsConfigFile
    /\ calls[c].pre.builds # <<>>

\* ------------------------------------------------------------------ claim C7

\* C7: when compile(f) misses fileMap and the resolver finds no manifest for
\* f, or one with diagnostics, compile(f) fails with that error at once, has
\* issued no service.build call, and leaves builds, fileMap, tsConfigMap and
\* groupMap as they were.
C7_ResolutionErrorPropagates ==
  \A c \in CallsOf("compile") :
    (/\ calls[c].world # "none"
     /\ Resolver(calls[c].world, normalizeSlashes(calls[c].filename)).kind # "ok") =>
      /\ Done(c)
      /\ calls[c].path = "noConfig"
      /\ calls[c].result =
           Resolver(calls[c].world, normalizeSlashes(calls[c].filename)).kind
      /\ calls[c].build = 0
      /\ calls[c].fileNames = <<>>
      /\ calls[c].ret = <<>>
      /\ Latest(c) => Registry = calls[c].pre

\* compile(f) failed on a manifest with diagnostics while a build of another
\* project was registered.
C7_Witness ==
  \E c \in CallsOf("compile") :
    /\ Latest(c)
    /\ calls[c].result = "ConfigParseError"
    /\ calls[c].pre.builds # <<>>
    /\ Registry = calls[c].pre

\* ------------------------------------------------------------------ claim C8

\* The names fileGroup(filename) lists, in its iteration order.
GroupNames(filename) ==
  LET g == fileGroup(filename) IN [i \in 1..Len(g) |-> g[i][1]]

\* What the resolver answered call c, its member list in the host's spelling.
Answer(c) == Resolver(calls[c].world, normalizeSlashes(calls[c].filename))
Members(c) == [i \in 1..Len(Answer(c).fileNames) |-> Native(platform, Answer(c).fileNames[i])]

\* C8 as stated: after compile(a) alone has returned without a build error,
\* every file b the resolver maps to a's manifest has the fileMap handle of
\* a, and fileGroup(a) and fileGroup(b) list both, in the member order.
C8_SameManifestSameHandle ==
  (Len(calls) = 1 /\ calls[1].op = "compile" /\ calls[1].path = "started") =>
    LET a == calls[1].filename
    IN \A b \in Filenames :
         (/\ Resolver(calls[1].world, normalizeSlashes(b)).kind = "ok"
          /\ Resolver(calls[1].world, normalizeSlashes(b)).tsConfigFile =
               Answer(1).tsConfigFile) =>
           /\ Has(fileMap, a) /\ Has(fileMap, b)
           /\ fileMap[a] = fileMap[b]
           /\ Has(groupMap, a) /\ Has(groupMap, b)
           /\ {a, b} \subseteq Range(GroupNames(a))
           /\ {a, b} \subseteq Range(GroupNames(b))
           /\ GroupNames(a) = Members(1)

\* C8 amended: after a compile call that started the process of a manifest
\* has returned without a build error, any two files a and b of the member
\* list the resolver answered have the handle it started as their fileMap
\* entry, and fileGroup(a) and fileGroup(b) list exactly the members, in the
\* resolver's member order and the host's spelling, each with its output.
C8_MembersShareHandle ==
  \A c \in CallsOf("compile") :
    (Latest(c) /\ calls[c].path = "started") =>
      \A a, b \in Range(Members(c)) :
        /\ Has(fileMap, a) /\ Has(fileMap, b)
        /\ fileMap[a] = calls[c].build
        /\ fileMap[b] = calls[c].build
        /\ GroupNames(a) = Members(c)
        /\ fileGroup(a) = fileGroup(b)
        /\ \A i \in 1..Len(Members(c)) :
             fileGroup(a)[i] = <<Members(c)[i], ExpectedOutput(Members(c)[i])>>

\* On win32, compile of one of two members has started their project.
C8_Witness ==
  \E c \in CallsOf("compile") :
    /\ Latest(c) /\ calls[c].path = "started"
    /\ platform = "win32"
    /\ Len(Members(c)) = 2
    /\ calls[c].filename = Members(c)[2]
    /\ fileMap[Members(c)[1]] = calls[c].build

\* ------------------------------------------------------------------ claim C9

\* C9: every compile(f) that returns, returns the output path of f, which
\* is fixed by f, workspaceRoot and workDir: the same on a fileMap hit, on a
\* start, on a live manifest and on a failed start; a compile(f) that throws
\* returns nothing.
C9_ReturnsDestination ==
  \A c \in CallsOf("compile") :
    /\ (Done(c) /\ calls[c].result = "ok") <=>
         calls[c].path \in {"hit", "live", "started", "startFailed"}
    /\ (Done(c) /\ calls[c].result = "ok") =>
         calls[c].ret = ExpectedOutput(calls[c].filename)
    /\ ~(Done(c) /\ calls[c].result = "ok") => calls[c].ret = <<>>

\* Three compile calls of the same file returned the same path by three
\* ways: a failed start, a start, and a manifest found live.
C9_Witness ==
  /\ Len(calls) = 3
  /\ calls[1].path = "startFailed"
  /\ calls[2].path = "started"
  /\ calls[3].path = "live"
  /\ calls[1].filename = calls[3].filename
  /\ calls[2].filename = calls[3].filename
  /\ calls[1].ret = calls[3].ret
  /\ calls[2].ret = calls[3].ret
  /\ calls[3].ret # <<>>

\* ----------------------------------------------------------------- claim C10

\* C10 as stated: in every reachable state the handles in builds and the
\* entries of tsConfigMap correspond one to one: every manifest entry is a
\* handle in builds, every handle in builds is the value of exactly one
\* manifest entry, and no manifest has two handles in builds.
C10_BuildsBijectiveWithManifests ==
  /\ \A m \in DOMAIN tsConfigMap : tsConfigMap[m] \in Range(builds)
  /\ \A i \in 1..Len(builds) :
       Cardinality({m \in DOMAIN tsConfigMap : tsConfigMap[m] = builds[i]}) = 1
  /\ \A m \in Manifests : Cardinality(LiveFor(m)) <= 1

\* ----------------------------------------------------------------- claim C11

\* C11: the check of line 99 is all that decides whether a compile call
\* issues a service.build call: the call leaving its await of getTSConfig
\* issues one for its manifest exactly when tsConfigMap has no handle for the
\* manifest at that moment, whatever other calls are suspended.  Two
\* overlapping compile calls of one unbuilt project can therefore both pass
\* it before either registers (two start calls, C11_Witness), or the second
\* can find the manifest registered by the first (one start call,
\* C11_OneStartReached).
C11_StartIffUnregistered ==
  [][\A c \in CallIds :
       (c <= Len(calls) /\ calls[c].pc = "resolved" /\ calls'[c].pc # "resolved") =>
         IF Has(tsConfigMap, calls[c].tsConfigFile)
           THEN /\ starts' = starts
                /\ calls'[c].pc = "done" /\ calls'[c].path = "live"
           ELSE /\ Len(starts') = Len(starts) + 1
                /\ starts'[Len(starts')].tsconfig = calls[c].tsConfigFile
                /\ calls'[c].pc = "building"
                /\ calls'[c].build = Len(starts')]_vars

\* Two compile calls, for two files of one manifest that had no handle, are
\* both awaiting the service.build call each has issued for it.
C11_Witness ==
  /\ Len(calls) = 2
  /\ calls[1].op = "compile" /\ calls[2].op = "compile"
  /\ calls[1].filename # calls[2].filename
  /\ calls[1].tsConfigFile = calls[2].tsConfigFile
  /\ calls[1].pc = "building" /\ calls[2].pc = "building"
  /\ calls[1].pre.tsConfigMap = EmptyMap /\ calls[2].pre.tsConfigMap = EmptyMap
  /\ Cardinality(StartsFor(calls[1].tsConfigFile)) = 2

\* Two compile calls that overlapped, for two files of one manifest that had
\* no handle when either was called, have returned after one start call: the
\* second found the manifest registered by the first.
C11_OneStartReached ==
  /\ Len(calls) = 2
  /\ calls[1].op = "compile" /\ calls[2].op = "compile"
  /\ calls[1].filename # calls[2].filename
  /\ calls[1].tsConfigFile = calls[2].tsConfigFile
  /\ calls[1].path = "started" /\ calls[2].path = "live"
  /\ calls[1].pre.tsConfigMap = EmptyMap /\ calls[2].pre.tsConfigMap = EmptyMap
  /\ calls[2].pre.fileMap = EmptyMap
  /\ Cardinality(StartsFor(calls[1].tsConfigFile)) = 1

\* ----------------------------------------------------------------- claim C12

\* fileMap[f] of the class, "undefined" standing for a missing entry.
FileMapAt(f) == IF Has(fileMap, f) THEN <<fileMap[f]>> ELSE <<>>

\* C12 as stated: in every reachable state, every file f that has a groupMap
\* entry G is in G, and every file of G has the fileMap entry of f.
C12_GroupsShareHandle ==
  \A f \in DOMAIN groupMap :
    /\ f \in Range(groupMap[f])
    /\ \A g \in Range(groupMap[f]) : FileMapAt(g) = FileMapAt(f)

\* ----------------------------------------------------------------- claim C13

\* C13 as stated: once dispose() has been called on a handle, no step calls
\* rebuild() or dispose() on it again.
C13_NoUseAfterDispose ==
  [][\A h \in DOMAIN disposeCount :
       disposeCount[h] >= 1 =>
         /\ disposeCount'[h] = disposeCount[h]
         /\ rebuildCount'[h] = rebuildCount[h]]_vars

\* ----------------------------------------------------------------- claim C14

\* The registration of handle h is wholly present: its manifest maps to it,
\* it is in builds, and every entry point has its fileMap and groupMap entry.
WhollyRegistered(h) ==
  /\ Has(tsConfigMap, starts[h].tsconfig)
  /\ tsConfigMap[starts[h].tsconfig] = h
  /\ h \in Range(builds)
  /\ \A f \in Range(starts[h].entryPoints) :
       /\ Has(fileMap, f) /\ fileMap[f] = h
       /\ Has(groupMap, f) /\ groupMap[f] = starts[h].entryPoints

\* Nothing a registration of handle h writes is present.
NothingRegistered(h) ==
  /\ h \notin Range(builds)
  /\ \A m \in DOMAIN tsConfigMap : tsConfigMap[m] # h
  /\ \A f \in DOMAIN fileMap : fileMap[f] # h
  /\ \A f \in Range(starts[h].entryPoints) :
       ~(Has(groupMap, f) /\ groupMap[f] = starts[h].entryPoints)

\* C14 as stated: in every state (each is a point where another call can
\* run), for each manifest either tsConfigMap has a handle for it whose
\* registration is wholly present, or tsConfigMap has none and nothing
\* written by a registration for the manifest is present.
C14_RegistrationAllOrNothing ==
  \A m \in Manifests :
    \/ Has(tsConfigMap, m) /\ WhollyRegistered(tsConfigMap[m])
    \/ ~Has(tsConfigMap, m) /\ \A h \in StartsFor(m) : NothingRegistered(h)

\* ----------------------------------------------------------------- claim C15

\* Call c missed fileMap and the resolver answered it a manifest that had a
\* handle in tsConfigMap.
MissedFileOfLiveManifest(c) ==
  /\ calls[c].world # "none"
  /\ Answer(c).kind = "ok"
  /\ ~Has(calls[c].pre.fileMap, calls[c].filename)
  /\ Has(calls[c].pre.tsConfigMap, Answer(c).tsConfigFile)

\* C15: compile(f) for a file f that has no fileMap entry and whose resolved
\* manifest has a handle in tsConfigMap issues no service.build call,
\* returns normally, and leaves builds, fileMap, tsConfigMap and groupMap as
\* they were.
C15_LiveManifestIsNoOp ==
  \A c \in CallsOf("compile") :
    MissedFileOfLiveManifest(c) =>
      /\ calls[c].build = 0
      /\ calls[c].pc \in {"resolved", "done"}
      /\ Done(c) => (calls[c].path = "live" /\ calls[c].result = "ok")
      /\ Latest(c) => Registry = calls[c].pre

\* compile of a file its manifest does not list has returned on the handle
\* of the manifest, with the registry as it was.
C15_Witness ==
  \E c \in CallsOf("compile") :
    /\ MissedFileOfLiveManifest(c)
    /\ Latest(c)
    /\ calls[c].path = "live"
    /\ calls[c].pre.builds # <<>>
    /\ ~Has(fileMap, calls[c].filename)
    /\ Registry = calls[c].pre

\* ----------------------------------------------------------------- claim C16

\* C16: a rebuild() that has returned has no attempt still running on any
\* handle that was in builds at the call, and, every attempt settling, a
\* rebuild() that is waiting eventually returns.
C16_RebuildWaitsForAllAndReturns ==
  /\ [](\A c \in CallsOf("rebuild") :
          /\ Done(c) => calls[c].pending = {}
          /\ calls[c].pending \subseteq Range(calls[c].targets)
          /\ calls[c].failed \subseteq Range(calls[c].targets) \ calls[c].pending)
  /\ \A c \in CallIds :
       (c <= Len(calls) /\ calls[c].pc = "rebuilding")
         ~> (/\ c <= Len(calls)
             /\ calls[c].pc = "done"
             /\ calls[c].result = "ok"
             /\ calls[c].pending = {})

\* rebuild() has returned after waiting for two handles, one of which failed.
C16_Witness ==
  \E c \in CallsOf("rebuild") :
    /\ Done(c)
    /\ Len(calls[c].targets) = 2
    /\ calls[c].pending = {}
    /\ Cardinality(calls[c].failed) = 1

\* ----------------------------------------------------------------- claim C17

\* Compile call c ended in a build-start failure.
StartFailed(c) == calls[c].op = "compile" /\ Done(c) /\ calls[c].path = "startFailed"

\* C17 as stated: when the call after a compile whose start failed is a
\* rebuild() that has returned, a later start call was issued for the
\* manifest of the failed one.
C17_RebuildRetriesStart ==
  \A c \in 1..Len(calls) :
    (/\ StartFailed(c)
     /\ c + 1 <= Len(calls)
     /\ calls[c + 1].op = "rebuild"
     /\ Done(c + 1)) =>
      \E h \in StartsFor(calls[c].tsConfigFile) : h > calls[c].build

\* Compile call e is the first compile after c that was answered the manifest
\* of c and has gone past line 99, with nothing but a rebuild() in between.
NextCompileOf(c, e) ==
  /\ e \in {c + 1, c + 2}
  /\ e <= Len(calls)
  /\ e = c + 2 => calls[c + 1].op = "rebuild"
  /\ calls[e].op = "compile"
  /\ calls[e].tsConfigFile = calls[c].tsConfigFile
  /\ calls[e].pc # "resolved"

\* C17: after a build-start failure for project P inside compile, the next
\* rebuild() issues no start call, is not run on the failed start and leaves
\* P without a handle; the next compile of a file of P issues a start call
\* for P.
C17_CompileRetriesStart ==
  \A c \in 1..Len(calls) :
    StartFailed(c) =>
      /\ (c + 1 <= Len(calls) /\ calls[c + 1].op = "rebuild") =>
           /\ calls[c].build \notin Range(calls[c + 1].targets)
           /\ Latest(c + 1) =>
                /\ Len(starts) = calls[c].build
                /\ ~Has(tsConfigMap, calls[c].tsConfigFile)
      /\ \A e \in 1..Len(calls) :
           NextCompileOf(c, e) =>
             /\ calls[e].build = calls[c].build + 1
             /\ starts[calls[e].build].tsconfig = calls[c].tsConfigFile

\* A start failed, rebuild() returned without a start call, and the compile
\* after it started the project again.
C17_Witness ==
  /\ Len(calls) = 3
  /\ StartFailed(1)
  /\ calls[2].op = "rebuild" /\ Done(2)
  /\ NextCompileOf(1, 3)
  /\ Len(starts) = 2
  /\ starts[2].tsconfig = calls[1].tsConfigFile

\* ----------------------------------------------------------------- claim C18

\* Handle h is kept or was released: it is an element of builds or dispose()
\* was called on it.
KeptOrDisposed(h) == h \in Range(builds) \/ disposeCount[h] >= 1

\* C18 as stated: under any interleaving of compile and invalidate calls,
\* once every call has finished, every handle a successful start returned is
\* an element of builds or has had dispose() called on it.
C18_NoLeakedProcess ==
  (Quiet /\ CallsOf("rebuild") = {}) =>
    \A h \in 1..Len(starts) : Succeeded(h) => KeptOrDisposed(h)

====
